---- MODULE Spec2Model ----
(***************************************************************************)
(* Batch deletion engine of gmail-bulk-cleanup.                            *)
(*                                                                         *)
(*   gmail_bulk_delete.py  the command-line program (synchronous job)      *)
(*   gmail_ui.py           the Flask program (job on a worker thread)      *)
(*                                                                         *)
(* The Gmail service is the environment: a mailbox of message ids that     *)
(* match the query, listed in pages through a cursor that stays valid when *)
(* earlier messages are deleted, and a batch delete that applies fully or  *)
(* fails.  Every request is appended to the history variable calls, one    *)
(* log for each caller.                                                     *)
(***************************************************************************)
EXTENDS Integers, Sequences, FiniteSets, TLC

VARIABLES
    mailbox,               \* Gmail: the ids of the messages that match the query
    initial,               \* history: the size of the mailbox before any request
    calls,                 \* history: the requests each caller has sent to Gmail
    cli,                   \* gmail_bulk_delete.py: the run of the program
    deletion_in_progress,  \* gmail_ui.py: the global of that name
    deletion_progress,     \* gmail_ui.py: the global of that name (a dict)
    thr,                   \* gmail_ui.py: the do_deletion threads
    response,              \* gmail_ui.py: the answer to the last /api/delete
    count_response,        \* gmail_ui.py: the last /api/count and its answer
    writes                 \* history: the writes of each thread to deletion_progress

vars == <<mailbox, initial, calls, cli, deletion_in_progress, deletion_progress,
          thr, response, count_response, writes>>

\* the state of gmail_ui.py
ui == <<deletion_in_progress, deletion_progress, thr, response, count_response,
       writes>>

----------------------------------------------------------------------------
(* Bounds of the model *)

\* the mailbox holds p full pages plus r messages, p <= MaxFullPages
MaxFullPages == 2
\* r <= MaxExtra, or r = 234
MaxExtra == 1
\* under gmail_ui.py the mailbox holds at most UiMaxFullPages full pages
UiMaxFullPages == 1
\* the do_deletion threads of one run of gmail_ui.py
MaxWorkers == 2

----------------------------------------------------------------------------
(* Program constants *)

\* CONFIG['batch_size'] of gmail_bulk_delete.py
CONFIG_batch_size == 500
\* the Gmail API limit of delete_emails_by_query
GMAIL_LIMIT == 500
\* the threshold of the double confirmation in confirm_deletion
LARGE_DELETION == 1000

\* page_token = None
None == 0

Min(a, b) == IF a < b THEN a ELSE b

----------------------------------------------------------------------------
(* Text typed at a prompt: a sequence of characters *)

YES == <<"y", "e", "s">>
DELETE == <<"D", "E", "L", "E", "T", "E">>

\* str.lower(), on the letters that occur in the inputs
LowerChar(c) ==
    CASE c = "Y" -> "y"
      [] c = "E" -> "e"
      [] c = "S" -> "s"
      [] c = "D" -> "d"
      [] c = "L" -> "l"
      [] c = "T" -> "t"
      [] c = "N" -> "n"
      [] c = "O" -> "o"
      [] OTHER -> c

Lower(s) == [i \in 1..Len(s) |-> LowerChar(s[i])]

IsSpace(c) == c = " "

RECURSIVE LStrip(_)
LStrip(s) == IF s # <<>> /\ IsSpace(Head(s)) THEN LStrip(Tail(s)) ELSE s

RECURSIVE RStrip(_)
RStrip(s) ==
    IF s # <<>> /\ IsSpace(s[Len(s)]) THEN RStrip(SubSeq(s, 1, Len(s) - 1)) ELSE s

\* str.strip()
Strip(s) == RStrip(LStrip(s))

\* what the operator may type at the acknowledgment prompt
AckInputs ==
    { YES, <<"Y", "E", "S">>, <<" ", "y", "e", "s">>, <<"n", "o">>, <<"y">>, <<>> }

\* what the operator may type at the final prompt
MarkerInputs ==
    { DELETE, <<" ", "D", "E", "L", "E", "T", "E", " ">>,
      <<"d", "e", "l", "e", "t", "e">>, YES, <<>> }

----------------------------------------------------------------------------
(* The Gmail service *)

\* sizes of the mailbox under gmail_ui.py: full pages plus a remainder
UiMailboxSizes ==
    { p * GMAIL_LIMIT + r : p \in 0..UiMaxFullPages, r \in 0..MaxExtra }

\* sizes of the mailbox under gmail_bulk_delete.py
MailboxSizes ==
    { p * GMAIL_LIMIT + r : p \in 0..MaxFullPages, r \in (0..MaxExtra) \cup {234} }

\* the messages that follow the cursor
Rest(box, pageToken) == SelectSeq(box, LAMBDA id : id > pageToken)

\* messages.list: the page of at most maxResults ids after pageToken
Page(box, maxResults, pageToken) ==
    LET rest == Rest(box, pageToken)
    IN  SubSeq(rest, 1, Min(maxResults, Len(rest)))

\* the nextPageToken values the service may attach to that page: the cursor of
\* its last id when more messages follow; on the last page it may be absent or
\* present (the page after it is then empty)
NextTokens(box, maxResults, pageToken) ==
    LET rest == Rest(box, pageToken)
        page == Page(box, maxResults, pageToken)
    IN  IF page = <<>> THEN {None}
        ELSE IF Len(rest) > Len(page) THEN {page[Len(page)]}
        ELSE {None, page[Len(page)]}

\* resultSizeEstimate: the exact size, or an approximation of it
Estimates(box) == {Len(box), Len(box) + 1}

\* messages.batchDelete
Remove(box, ids) ==
    LET gone == {ids[i] : i \in 1..Len(ids)}
    IN  SelectSeq(box, LAMBDA id : id \notin gone)

\* the entries of calls: a request with its response (the page and the
\* nextPageToken of a list)
ListCall(maxResults, pageToken, page, nextPageToken) ==
    [op |-> "list", maxResults |-> maxResults, pageToken |-> pageToken,
     ids |-> page, nextPageToken |-> nextPageToken, ok |-> TRUE]

FailedListCall(maxResults, pageToken) ==
    [op |-> "list", maxResults |-> maxResults, pageToken |-> pageToken,
     ids |-> <<>>, nextPageToken |-> None, ok |-> FALSE]

DeleteCall(ids, ok) ==
    [op |-> "batchDelete", maxResults |-> 0, pageToken |-> None,
     ids |-> ids, nextPageToken |-> None, ok |-> ok]

\* a variant of CountCall: the estimate is asked for with a full page
CountCallFullPage(box) ==
    ListCall(GMAIL_LIMIT, None, Page(box, GMAIL_LIMIT, None),
             IF Len(box) > GMAIL_LIMIT THEN box[GMAIL_LIMIT] ELSE None)

\* the response to the list of count_emails, which reads resultSizeEstimate
\* only: its page of one message, with a nextPageToken when more follow
CountCall(box) ==
    ListCall(1, None, Page(box, 1, None), IF Len(box) > 1 THEN box[1] ELSE None)

\* the log with one more request of caller by
Logged(by, call) == [calls EXCEPT ![by] = Append(@, call)]

----------------------------------------------------------------------------
(* gmail_bulk_delete.py: the command-line program *)

\* the caller of the command-line requests in calls
CLI == 0

\* FILTERS: the query of a catalog entry ('trash')
FilterQuery == <<"i", "n", ":", "t", "r", "a", "s", "h">>

\* what the operator may type at the custom query prompt
CustomInputs == { <<>>, <<" ">>, <<"q">>, <<" ", "q", " ">> }

\* batch_size arguments of delete_emails_by_query
RequestedBatchSizes ==
    {100, GMAIL_LIMIT - 1, GMAIL_LIMIT, GMAIL_LIMIT + 1, GMAIL_LIMIT + 100}

\* a variant of cli_large_deletion: the threshold itself counts as large
cli_large_deletion_from_threshold(count) == count >= LARGE_DELETION

\* the double confirmation is asked for large deletions
cli_large_deletion(count) == count > LARGE_DELETION

\* the answer to the acknowledgment prompt lets the run go on
cli_acknowledged(confirm1) == Lower(confirm1) = YES

\* a variant of cli_marker_typed: the marker compared without regard to case
cli_marker_typed_any_case(confirm2) == Lower(Strip(confirm2)) = Lower(DELETE)

\* the answer to the final prompt confirms the deletion
cli_marker_typed(confirm2) == Strip(confirm2) = DELETE

\* confirm_deletion(query, count), on the answers typed at its prompts
confirm_deletion(count, confirm1, confirm2) ==
    IF cli_large_deletion(count) /\ ~cli_acknowledged(confirm1)
    THEN FALSE
    ELSE cli_marker_typed(confirm2)

\* the prompts confirm_deletion shows, in order
confirm_prompts(count, confirm1) ==
    IF cli_large_deletion(count)
    THEN IF cli_acknowledged(confirm1) THEN <<"ack", "marker">> ELSE <<"ack">>
    ELSE <<"marker">>

\* the answers confirm_deletion reads, in order
confirm_answers(count, confirm1, confirm2) ==
    IF cli_large_deletion(count)
    THEN IF cli_acknowledged(confirm1) THEN <<confirm1, confirm2>> ELSE <<confirm1>>
    ELSE <<confirm2>>

\* a variant of cli_batch_size: the argument used as it is
cli_batch_size_unclamped(batch_size) == batch_size

\* the clamp of batch_size to the Gmail API limit
cli_batch_size(batch_size) ==
    IF batch_size > GMAIL_LIMIT THEN GMAIL_LIMIT ELSE batch_size

\* a variant of cli_no_messages: the empty page is not noticed
cli_no_messages_unchecked(messages) == FALSE

\* if not messages: break
cli_no_messages(messages) == messages = <<>>

\* a variant of cli_add_deleted: the count assigned, not added
cli_add_deleted_assigned(total_deleted, message_ids) == Len(message_ids)

\* total_deleted += len(message_ids)
cli_add_deleted(total_deleted, message_ids) == total_deleted + Len(message_ids)

\* if not page_token: break
cli_no_more_pages(page_token) == page_token = None

\* the value count_emails returns when the listing raises HttpError
cli_count_on_error == 0

CliStart(mode, batch_size) ==
    [pc |-> IF mode = "main" THEN "auth" ELSE "list",
     mode |-> mode,
     query |-> IF mode = "main" THEN <<>> ELSE FilterQuery,
     count |-> 0,
     count_failed |-> FALSE,
     prompts |-> <<>>,
     answers |-> <<>>,
     batch_size |-> batch_size,
     total_deleted |-> 0,
     page_token |-> None,
     message_ids |-> <<>>,
     next_token |-> None,
     failed |-> FALSE,
     outcome |-> "running",
     result |-> 0]

\* main: sys.exit or return, with what was printed last
CliExit(outcome) == [cli EXCEPT !.pc = "exit", !.outcome = outcome]

\* main step 1: get_gmail_service() returns a service or raises
CliAuth ==
    /\ cli.pc = "auth"
    /\ \/ cli' = [cli EXCEPT !.pc = "choose"]
       \/ cli' = CliExit("auth_error")
    /\ UNCHANGED <<mailbox, initial, calls, ui>>

\* main step 2: get_user_filter_choice, one round of its loop
CliChoose ==
    /\ cli.pc = "choose"
    /\ \E choice \in {"filter", "custom", "invalid"}, typed \in CustomInputs :
         cli' = CASE choice = "invalid" -> cli
                  [] choice = "filter" -> [cli EXCEPT !.pc = "count", !.query = FilterQuery]
                  [] OTHER ->
                       IF Strip(typed) = <<>> THEN cli
                       ELSE [cli EXCEPT !.pc = "count", !.query = Strip(typed)]
    /\ UNCHANGED <<mailbox, initial, calls, ui>>

\* main step 3: count_emails(service, query) and the test of its result
CliCountDone(count, failed) ==
    IF count = 0
    THEN [CliExit("no_emails") EXCEPT !.count = count, !.count_failed = failed]
    ELSE [cli EXCEPT !.pc = "confirm", !.count = count, !.count_failed = failed]

CliCount ==
    /\ cli.pc = "count"
    /\ UNCHANGED <<mailbox, initial, ui>>
    /\ \/ \E estimate \in Estimates(mailbox) :
            /\ calls' = Logged(CLI, CountCall(mailbox))
            /\ cli' = CliCountDone(estimate, FALSE)
       \/ /\ calls' = Logged(CLI, FailedListCall(1, None))
          /\ \/ cli' = CliCountDone(cli_count_on_error, TRUE)
             \/ cli' = CliExit("unexpected_error")

\* main step 4: confirm_deletion(query, count)
CliConfirm ==
    /\ cli.pc = "confirm"
    /\ \E confirm1 \in AckInputs, confirm2 \in MarkerInputs :
         LET seen == [cli EXCEPT !.prompts = confirm_prompts(cli.count, confirm1),
                                 !.answers = confirm_answers(cli.count, confirm1, confirm2)]
         IN  cli' = IF confirm_deletion(cli.count, confirm1, confirm2)
                    THEN [seen EXCEPT !.pc = "list"]
                    ELSE [seen EXCEPT !.pc = "exit", !.outcome = "cancelled"]
    /\ UNCHANGED <<mailbox, initial, calls, ui>>

\* an exception other than HttpError leaves delete_emails_by_query
CliRaised ==
    IF cli.mode = "main" THEN CliExit("unexpected_error")
    ELSE [cli EXCEPT !.pc = "raised", !.outcome = "raised"]

\* delete_emails_by_query: the messages.list request of the loop
CliList ==
    /\ cli.pc = "list"
    /\ UNCHANGED <<mailbox, initial, ui>>
    /\ LET maxResults == cli_batch_size(cli.batch_size)
       IN  \/ \E next \in NextTokens(mailbox, maxResults, cli.page_token) :
                LET messages == Page(mailbox, maxResults, cli.page_token)
                IN  /\ calls' = Logged(CLI, ListCall(maxResults, cli.page_token,
                                                      messages, next))
                    /\ cli' = IF cli_no_messages(messages)
                              THEN [cli EXCEPT !.pc = "returned",
                                               !.result = cli.total_deleted]
                              ELSE [cli EXCEPT !.pc = "delete",
                                               !.message_ids = messages,
                                               !.next_token = next]
           \/ /\ calls' = Logged(CLI, FailedListCall(maxResults, cli.page_token))
              /\ \/ cli' = [cli EXCEPT !.pc = "returned", !.failed = TRUE,
                                       !.result = cli.total_deleted]
                 \/ cli' = CliRaised

\* delete_emails_by_query: the batchDelete request and the rest of the round
CliBatchDelete ==
    /\ cli.pc = "delete"
    /\ UNCHANGED <<initial, ui>>
    /\ \/ /\ mailbox' = Remove(mailbox, cli.message_ids)
          /\ calls' = Logged(CLI, DeleteCall(cli.message_ids, TRUE))
          /\ LET total == cli_add_deleted(cli.total_deleted, cli.message_ids)
                 counted == [cli EXCEPT !.total_deleted = total,
                                        !.page_token = cli.next_token,
                                        !.message_ids = <<>>]
             IN  cli' = IF cli_no_more_pages(cli.next_token)
                        THEN [counted EXCEPT !.pc = "returned", !.result = total]
                        ELSE [counted EXCEPT !.pc = "list"]
       \/ /\ UNCHANGED mailbox
          /\ calls' = Logged(CLI, DeleteCall(cli.message_ids, FALSE))
          /\ \/ cli' = [cli EXCEPT !.pc = "returned", !.failed = TRUE,
                                   !.result = cli.total_deleted]
             \/ cli' = CliRaised

\* main: the report after delete_emails_by_query has returned
CliReport ==
    /\ cli.pc = "returned"
    /\ cli.mode = "main"
    /\ cli' = CliExit("success")
    /\ UNCHANGED <<mailbox, initial, calls, ui>>

----------------------------------------------------------------------------
(* gmail_ui.py: the Flask program *)

\* the do_deletion threads the model lets the program start
Workers == 1..MaxWorkers

\* request.json.get('query') of a POST /api/delete
QueryInputs == { <<>>, <<"q">> }

\* CONFIG['batch_size'] of gmail_ui.py
UI_batch_size == 500

\* the value count_emails returns when the listing raises HttpError
ui_count_on_error == -1

\* the value delete_emails_by_query returns when a request raises HttpError
ui_deleted_on_error == -1

\* the module-level deletion_progress
IdleProgress == [current |-> 0, total |-> 0, status |-> "idle"]

\* d[k] = v on a dict
SetItem(d, k, v) == [x \in DOMAIN d \cup {k} |-> IF x = k THEN v ELSE d[x]]

\* a thread that has not been created; deleted, the local of do_deletion, is
\* <<>> until it is assigned and <<v>> afterwards
NoThread ==
    [pc |-> "idle", query |-> <<>>, cnt |-> 0, total_deleted |-> 0,
     page_token |-> None, message_ids |-> <<>>, next_token |-> None,
     deleted |-> <<>>, exc |-> ""]

\* a variant of ui_refused: the flag is not looked at
ui_refused_never == FALSE

\* if deletion_in_progress: the request is refused
ui_refused == deletion_in_progress

\* a variant of ui_no_query: the query is not looked at
ui_no_query_unchecked(query) == FALSE

\* if not query
ui_no_query(query) == query = <<>>

\* a variant of ui_no_messages: the empty page is not noticed
ui_no_messages_unchecked(messages) == FALSE

\* if not messages: break
ui_no_messages(messages) == messages = <<>>

\* a variant of ui_add_deleted: the count is assigned, not added to
ui_add_deleted_assigned(total_deleted, message_ids) == Len(message_ids)

\* total_deleted += len(message_ids)
ui_add_deleted(total_deleted, message_ids) == total_deleted + Len(message_ids)

\* a variant of ui_no_more_pages: the loop stops after the first batch
ui_no_more_pages_always(page_token) == TRUE

\* if not page_token: break
ui_no_more_pages(page_token) == page_token = None

\* POST /api/delete: the route delete(), up to its response
UiDelete ==
    /\ \E query \in QueryInputs :
         IF ui_refused
         THEN /\ response' = [code |-> 400, body |-> "Deletion in progress"]
              /\ UNCHANGED thr
         ELSE IF ui_no_query(query)
         THEN /\ response' = [code |-> 400, body |-> "No query"]
              /\ UNCHANGED thr
         ELSE /\ \E w \in Workers :
                   /\ thr[w].pc = "idle"
                   /\ \A v \in Workers : v < w => thr[v].pc # "idle"
                   /\ thr' = [thr EXCEPT ![w] = [NoThread EXCEPT !.pc = "begin",
                                                                 !.query = query]]
              /\ response' = [code |-> 200, body |-> "deleting"]
    /\ UNCHANGED <<mailbox, initial, calls, cli, deletion_in_progress, deletion_progress,
                   count_response, writes>>

\* the history with one more write of thread w: deletion_progress[key] = value,
\* made after the requests thread w has sent so far
Written(w, key, value) ==
    [writes EXCEPT ![w] = Append(@, [key |-> key, value |-> value,
                                     at |-> Len(calls[w])])]

\* thread w moves to pc
Goto(w, pc) == [thr EXCEPT ![w].pc = pc]

\* thread w enters the except clause of do_deletion with exception e
Except(w, e) == [thr EXCEPT ![w].pc = "except", ![w].exc = e]

\* do_deletion: deletion_in_progress = True, then
\* service = get_gmail_service(), which returns or raises
UiBegin(w) ==
    /\ thr[w].pc = "begin"
    /\ deletion_in_progress' = TRUE
    /\ \/ thr' = Goto(w, "count")
       \/ thr' = Except(w, "credentials.json not found!")
    /\ UNCHANGED <<mailbox, initial, calls, cli, deletion_progress,
                   response, count_response, writes>>

\* do_deletion: cnt = count_emails(service, query)
UiCount(w) ==
    /\ thr[w].pc = "count"
    /\ \/ \E estimate \in Estimates(mailbox) :
            /\ calls' = Logged(w, CountCall(mailbox))
            /\ thr' = [thr EXCEPT ![w].pc = "total", ![w].cnt = estimate]
       \/ /\ calls' = Logged(w, FailedListCall(1, None))
          /\ \/ thr' = [thr EXCEPT ![w].pc = "total", ![w].cnt = ui_count_on_error]
             \/ thr' = Except(w, "transport error")
    /\ UNCHANGED <<mailbox, initial, cli, deletion_in_progress, deletion_progress,
                   response, count_response, writes>>

\* do_deletion: deletion_progress['total'] = cnt
UiTotal(w) ==
    /\ thr[w].pc = "total"
    /\ deletion_progress' = SetItem(deletion_progress, "total", thr[w].cnt)
    /\ writes' = Written(w, "total", thr[w].cnt)
    /\ thr' = [thr EXCEPT ![w].pc = "current", ![w].cnt = 0]
    /\ UNCHANGED <<mailbox, initial, calls, cli, deletion_in_progress,
                   response, count_response>>

\* do_deletion: deletion_progress['current'] = 0
UiCurrent(w) ==
    /\ thr[w].pc = "current"
    /\ deletion_progress' = SetItem(deletion_progress, "current", 0)
    /\ writes' = Written(w, "current", 0)
    /\ thr' = Goto(w, "deleting")
    /\ UNCHANGED <<mailbox, initial, calls, cli, deletion_in_progress,
                   response, count_response>>

\* a variant of UiDeleting: the status is not set when the loop is entered
UiDeletingSilent(w) ==
    /\ thr[w].pc = "deleting"
    /\ thr' = [thr EXCEPT ![w].pc = "list", ![w].total_deleted = 0,
                          ![w].page_token = None]
    /\ UNCHANGED <<mailbox, initial, calls, cli, deletion_in_progress,
                   deletion_progress, response, count_response, writes>>

\* delete_emails_by_query: total_deleted = 0, page_token = None,
\* deletion_progress['status'] = 'deleting'
UiDeleting(w) ==
    /\ thr[w].pc = "deleting"
    /\ deletion_progress' = SetItem(deletion_progress, "status", "deleting")
    /\ writes' = Written(w, "status", "deleting")
    /\ thr' = [thr EXCEPT ![w].pc = "list", ![w].total_deleted = 0,
                          ![w].page_token = None]
    /\ UNCHANGED <<mailbox, initial, calls, cli, deletion_in_progress,
                   response, count_response>>

\* delete_emails_by_query: the messages.list request of the loop
UiList(w) ==
    /\ thr[w].pc = "list"
    /\ \/ \E next \in NextTokens(mailbox, UI_batch_size, thr[w].page_token) :
            LET messages == Page(mailbox, UI_batch_size, thr[w].page_token)
            IN  /\ calls' = Logged(w, ListCall(UI_batch_size, thr[w].page_token,
                                                messages, next))
                /\ thr' = IF ui_no_messages(messages)
                          THEN Goto(w, "complete")
                          ELSE [thr EXCEPT ![w].pc = "delete",
                                           ![w].message_ids = messages,
                                           ![w].next_token = next]
       \/ /\ calls' = Logged(w, FailedListCall(UI_batch_size, thr[w].page_token))
          /\ \/ thr' = Goto(w, "http_error")
             \/ thr' = Except(w, "transport error")
    /\ UNCHANGED <<mailbox, initial, cli, deletion_in_progress, deletion_progress,
                   response, count_response, writes>>

\* delete_emails_by_query: the batchDelete request and total_deleted += len(..)
UiBatchDelete(w) ==
    /\ thr[w].pc = "delete"
    /\ \/ /\ mailbox' = Remove(mailbox, thr[w].message_ids)
          /\ calls' = Logged(w, DeleteCall(thr[w].message_ids, TRUE))
          /\ thr' = [thr EXCEPT ![w].pc = "publish",
                                ![w].total_deleted =
                                    ui_add_deleted(@, thr[w].message_ids),
                                ![w].message_ids = <<>>]
       \/ /\ UNCHANGED mailbox
          /\ calls' = Logged(w, DeleteCall(thr[w].message_ids, FALSE))
          /\ \/ thr' = Goto(w, "http_error")
             \/ thr' = Except(w, "transport error")
    /\ UNCHANGED <<initial, cli, deletion_in_progress, deletion_progress,
                   response, count_response, writes>>

\* a variant of UiPublish: the page token of the response is not taken over
UiPublishSamePage(w) ==
    /\ thr[w].pc = "publish"
    /\ deletion_progress' = SetItem(deletion_progress, "current", thr[w].total_deleted)
    /\ writes' = Written(w, "current", thr[w].total_deleted)
    /\ thr' = [thr EXCEPT ![w].pc = IF ui_no_more_pages(thr[w].next_token)
                                     THEN "complete" ELSE "list"]
    /\ UNCHANGED <<mailbox, initial, calls, cli, deletion_in_progress,
                   response, count_response>>

\* delete_emails_by_query: deletion_progress['current'] = total_deleted, then
\* page_token = results.get('nextPageToken') and its test
UiPublish(w) ==
    /\ thr[w].pc = "publish"
    /\ deletion_progress' = SetItem(deletion_progress, "current", thr[w].total_deleted)
    /\ writes' = Written(w, "current", thr[w].total_deleted)
    /\ thr' = [thr EXCEPT ![w].pc = IF ui_no_more_pages(thr[w].next_token)
                                     THEN "complete" ELSE "list",
                          ![w].page_token = thr[w].next_token]
    /\ UNCHANGED <<mailbox, initial, calls, cli, deletion_in_progress,
                   response, count_response>>

\* delete_emails_by_query: deletion_progress['status'] = 'complete' and
\* return total_deleted
UiComplete(w) ==
    /\ thr[w].pc = "complete"
    /\ deletion_progress' = SetItem(deletion_progress, "status", "complete")
    /\ writes' = Written(w, "status", "complete")
    /\ thr' = [thr EXCEPT ![w].pc = "release", ![w].deleted = <<thr[w].total_deleted>>]
    /\ UNCHANGED <<mailbox, initial, calls, cli, deletion_in_progress,
                   response, count_response>>

\* a variant of UiHttpError: return -1 and leave the status as it is
UiHttpErrorSilent(w) ==
    /\ thr[w].pc = "http_error"
    /\ thr' = [thr EXCEPT ![w].pc = "release", ![w].deleted = <<ui_deleted_on_error>>]
    /\ UNCHANGED <<mailbox, initial, calls, cli, deletion_in_progress,
                   deletion_progress, response, count_response, writes>>

\* a variant of UiHttpError: the loop goes on after the HttpError
UiHttpErrorRetry(w) ==
    /\ thr[w].pc = "http_error"
    /\ thr' = Goto(w, "list")
    /\ UNCHANGED <<mailbox, initial, calls, cli, deletion_in_progress,
                   deletion_progress, response, count_response, writes>>

\* delete_emails_by_query, except HttpError: deletion_progress['status'] = 'error'
\* and return -1
UiHttpError(w) ==
    /\ thr[w].pc = "http_error"
    /\ deletion_progress' = SetItem(deletion_progress, "status", "error")
    /\ writes' = Written(w, "status", "error")
    /\ thr' = [thr EXCEPT ![w].pc = "release", ![w].deleted = <<ui_deleted_on_error>>]
    /\ UNCHANGED <<mailbox, initial, calls, cli, deletion_in_progress,
                   response, count_response>>

\* do_deletion, after delete_emails_by_query returned: deletion_in_progress = False
UiRelease(w) ==
    /\ thr[w].pc = "release"
    /\ deletion_in_progress' = FALSE
    /\ thr' = Goto(w, "done")
    /\ UNCHANGED <<mailbox, initial, calls, cli, deletion_progress,
                   response, count_response, writes>>

\* do_deletion, except Exception: deletion_progress['status'] = 'error'
UiExcept(w) ==
    /\ thr[w].pc = "except"
    /\ deletion_progress' = SetItem(deletion_progress, "status", "error")
    /\ writes' = Written(w, "status", "error")
    /\ thr' = Goto(w, "except_detail")
    /\ UNCHANGED <<mailbox, initial, calls, cli, deletion_in_progress,
                   response, count_response>>

\* do_deletion, except Exception: deletion_progress['error'] = str(e)
UiExceptDetail(w) ==
    /\ thr[w].pc = "except_detail"
    /\ deletion_progress' = SetItem(deletion_progress, "error", thr[w].exc)
    /\ writes' = Written(w, "error", thr[w].exc)
    /\ thr' = Goto(w, "except_release")
    /\ UNCHANGED <<mailbox, initial, calls, cli, deletion_in_progress,
                   response, count_response>>

\* a variant of UiExceptRelease: the except clause leaves the flag set
UiExceptReleaseKept(w) ==
    /\ thr[w].pc = "except_release"
    /\ thr' = Goto(w, "done")
    /\ UNCHANGED <<mailbox, initial, calls, cli, deletion_in_progress,
                   deletion_progress, response, count_response, writes>>

\* do_deletion, except Exception: deletion_in_progress = False
UiExceptRelease(w) ==
    /\ thr[w].pc = "except_release"
    /\ deletion_in_progress' = FALSE
    /\ thr' = Goto(w, "done")
    /\ UNCHANGED <<mailbox, initial, calls, cli, deletion_progress,
                   response, count_response, writes>>

\* the caller of the requests of the route count() in calls
API == MaxWorkers + 1

\* no POST /api/count has been served
NotCounted == [query |-> <<>>, code |-> 0, error |-> "", count |-> <<>>]

\* POST /api/count: the route count(), up to its response; calls[API] holds the
\* requests the route sent to Gmail while it served the last POST
ApiCount ==
    /\ \E query \in QueryInputs :
         IF ui_no_query(query)
         THEN /\ count_response' = [query |-> query, code |-> 400,
                                    error |-> "No query", count |-> <<>>]
              /\ calls' = [calls EXCEPT ![API] = <<>>]
         ELSE \/ /\ count_response' = [query |-> query, code |-> 500,
                                       error |-> "credentials.json not found!",
                                       count |-> <<>>]
                 /\ calls' = [calls EXCEPT ![API] = <<>>]
              \/ \E estimate \in Estimates(mailbox) :
                   /\ count_response' = [query |-> query, code |-> 200,
                                         error |-> "", count |-> <<estimate>>]
                   /\ calls' = [calls EXCEPT
                                  ![API] = <<CountCall(mailbox)>>]
              \/ /\ calls' = [calls EXCEPT ![API] = <<FailedListCall(1, None)>>]
                 /\ \/ count_response' = [query |-> query, code |-> 200, error |-> "",
                                          count |-> <<ui_count_on_error>>]
                    \/ count_response' = [query |-> query, code |-> 500,
                                          error |-> "transport error", count |-> <<>>]
    /\ UNCHANGED <<mailbox, initial, cli, deletion_in_progress, deletion_progress,
                   thr, response, writes>>

\* GET /api/progress: the route progress() answers with the dict as it is
progress == deletion_progress


----------------------------------------------------------------------------
(* The two programs *)

\* the mailbox before any request
InitGmail(sizes) ==
    /\ \E n \in sizes : mailbox = [i \in 1..n |-> i]
    /\ initial = Len(mailbox)
    /\ calls = [by \in {CLI, API} \cup Workers |-> <<>>]

\* gmail_ui.py after import: no request served
InitUiState ==
    /\ deletion_in_progress = FALSE
    /\ deletion_progress = IdleProgress
    /\ thr = [w \in Workers |-> NoThread]
    /\ response = [code |-> 0, body |-> ""]
    /\ count_response = NotCounted
    /\ writes = [w \in Workers |-> <<>>]

\* gmail_bulk_delete.py not started: either main(), or a direct call of
\* delete_emails_by_query with a batch_size argument
InitCli ==
    /\ InitGmail(MailboxSizes)
    /\ InitUiState
    /\ \/ cli = CliStart("main", CONFIG_batch_size)
       \/ \E b \in RequestedBatchSizes : cli = CliStart("call", b)

\* gmail_ui.py serving
InitUi ==
    /\ InitGmail(UiMailboxSizes)
    /\ InitUiState
    /\ cli = CliStart("main", CONFIG_batch_size)

NextCli ==
    \/ CliAuth
    \/ CliChoose
    \/ CliCount
    \/ CliConfirm
    \/ CliList
    \/ CliBatchDelete
    \/ CliReport

SpecCli == InitCli /\ [][NextCli]_vars

NextUi ==
    \/ UiDelete
    \/ \E w \in Workers : UiBegin(w)
    \/ \E w \in Workers : UiCount(w)
    \/ \E w \in Workers : UiTotal(w)
    \/ \E w \in Workers : UiCurrent(w)
    \/ \E w \in Workers : UiDeleting(w)
    \/ \E w \in Workers : UiList(w)
    \/ \E w \in Workers : UiBatchDelete(w)
    \/ \E w \in Workers : UiPublish(w)
    \/ \E w \in Workers : UiComplete(w)
    \/ \E w \in Workers : UiHttpError(w)
    \/ \E w \in Workers : UiRelease(w)
    \/ \E w \in Workers : UiExcept(w)
    \/ \E w \in Workers : UiExceptDetail(w)
    \/ \E w \in Workers : UiExceptRelease(w)

SpecUi == InitUi /\ [][NextUi]_vars

\* the steps of the do_deletion threads
ThreadSteps ==
    \E w \in Workers :
        \/ UiBegin(w) \/ UiCount(w) \/ UiTotal(w) \/ UiCurrent(w) \/ UiDeleting(w)
        \/ UiList(w) \/ UiBatchDelete(w) \/ UiPublish(w) \/ UiComplete(w)
        \/ UiHttpError(w) \/ UiRelease(w)
        \/ UiExcept(w) \/ UiExceptDetail(w) \/ UiExceptRelease(w)

\* no do_deletion thread is running
NoJobRunning == \A w \in Workers : thr[w].pc \in {"idle", "done"}

\* gmail_bulk_delete.py is not running: it has not sent a request, or it has
\* ended
CliNotRunning ==
    \/ cli.pc \in {"auth", "list"} /\ calls[CLI] = <<>>
    \/ cli.pc \in {"returned", "raised", "exit"}

\* both programs on one mailbox: gmail_ui.py serving, and a caller of
\* delete_emails_by_query of gmail_bulk_delete.py
InitSeq ==
    /\ InitGmail(UiMailboxSizes)
    /\ InitUiState
    /\ cli = CliStart("call", CONFIG_batch_size)

\* jobs that follow one another on the mailbox, in any order: the call of
\* delete_emails_by_query of gmail_bulk_delete.py and the jobs of gmail_ui.py,
\* each started when no other job is running
NextSeq ==
    \/ NoJobRunning /\ (CliList \/ CliBatchDelete)
    \/ NoJobRunning /\ CliNotRunning /\ UiDelete
    \/ ThreadSteps

SpecSeq == InitSeq /\ [][NextSeq]_vars

\* gmail_ui.py has served no request
UiNotStarted ==
    /\ \A w \in Workers : thr[w].pc = "idle"
    /\ response.code = 0
    /\ count_response = NotCounted

\* gmail_bulk_delete.py has not run its first step
CliNotStarted == cli = CliStart("main", CONFIG_batch_size)

\* either program on its own: a run of gmail_bulk_delete.py, or gmail_ui.py
\* serving its routes to one client, which starts a job when none is running
\* and asks for a count at any time
NextAll ==
    \/ UiNotStarted /\ NextCli
    \/ CliNotStarted /\ NoJobRunning /\ UiDelete
    \/ CliNotStarted /\ ApiCount
    \/ CliNotStarted /\ ThreadSteps

SpecAll == InitUi /\ [][NextAll]_vars

----------------------------------------------------------------------------
(* The requests of a caller *)

\* the batchDelete requests caller by has sent
Deletes(by) == SelectSeq(calls[by], LAMBDA c : c.op = "batchDelete")

\* the list requests caller by has sent
Lists(by) == SelectSeq(calls[by], LAMBDA c : c.op = "list")

\* the ids of a request
IdsOf(call) == {call.ids[i] : i \in 1..Len(call.ids)}

\* the sizes of the batches of a sequence of batchDelete requests
Sizes(deletes) == [i \in 1..Len(deletes) |-> Len(deletes[i].ids)]

RECURSIVE Sum(_)
Sum(sizes) == IF sizes = <<>> THEN 0 ELSE Head(sizes) + Sum(Tail(sizes))

\* the batchDelete requests of by that succeeded
Deleted(by) == SelectSeq(Deletes(by), LAMBDA c : c.ok)

\* some request of by failed
SomeFailed(by) == \E i \in 1..Len(calls[by]) : ~calls[by][i].ok

----------------------------------------------------------------------------
(* The command-line job *)

\* delete_emails_by_query has returned (main may have reported since)
CliReturned == cli.pc = "returned" \/ (cli.pc = "exit" /\ cli.outcome = "success")

\* C2: a job over N matching messages in pages of size B <= 500 that meets no
\* remote failure sends exactly ceil(N/B) batchDelete requests, counts N deleted
\* messages and returns normally; no id is in two batches; N = 1234, B = 500
\* gives batches of 500, 500 and 234; a first page shorter than B gives exactly
\* one batchDelete request
Thm_C2 ==
    (CliReturned /\ ~SomeFailed(CLI) /\ cli.batch_size <= 500) =>
        LET B == cli.batch_size
            deletes == Deletes(CLI)
        IN  /\ ~cli.failed
            /\ Len(deletes) = (initial + B - 1) \div B
            /\ cli.result = initial
            /\ \A i, j \in 1..Len(deletes) :
                 i < j => IdsOf(deletes[i]) \cap IdsOf(deletes[j]) = {}
            /\ (initial = 1234 /\ B = 500) => Sizes(deletes) = <<500, 500, 234>>
            /\ (0 < initial /\ initial < B) => Len(deletes) = 1

\* a job over 1234 messages in pages of 500 has returned after three batches
Wit_C2 ==
    /\ CliReturned
    /\ ~SomeFailed(CLI)
    /\ initial = 1234
    /\ cli.batch_size = 500
    /\ Sizes(Deletes(CLI)) = <<500, 500, 234>>

\* C3 (as claimed): after a remote failure in the loop the run ends as an error,
\* not as a success, and the reported count is the total length of the batches
\* deleted before the failure
Cex_C3 ==
    (cli.mode = "main" /\ cli.pc = "exit" /\ cli.failed /\ Deleted(CLI) # <<>>) =>
        /\ cli.outcome # "success"
        /\ cli.result = Sum(Sizes(Deleted(CLI)))

----------------------------------------------------------------------------
(* The confirmation of the command-line program *)

\* the answers that are the marker DELETE (blanks around it aside)
MarkerAnswers == { DELETE, <<" ", "D", "E", "L", "E", "T", "E", " ">> }

\* the answers that are a yes (in either case)
YesAnswers == { YES, <<"Y", "E", "S">> }

\* C5: main sends a batchDelete request only after the operator typed the
\* marker DELETE at the final prompt and, when the estimate is above 1000, had
\* answered yes at the acknowledgment prompt before it; a run the operator
\* cancelled has sent none
Thm_C5 ==
    /\ (cli.mode = "main" /\ Deletes(CLI) # <<>>) =>
          /\ cli.prompts # <<>>
          /\ cli.prompts[Len(cli.prompts)] = "marker"
          /\ cli.answers[Len(cli.answers)] \in MarkerAnswers
          /\ cli.count > 1000 =>
                /\ cli.prompts = <<"ack", "marker">>
                /\ cli.answers[1] \in YesAnswers
    /\ cli.outcome \in {"cancelled", "no_emails", "auth_error"} => Deletes(CLI) = <<>>

\* main has deleted a batch of a large deletion after both confirmations
Wit_C5 ==
    /\ cli.mode = "main"
    /\ cli.count > 1000
    /\ cli.answers = <<YES, DELETE>>
    /\ Deleted(CLI) # <<>>

\* C6: the acknowledgment prompt is shown exactly when count > 1000: not for
\* 1000 and below, and for 1001 and above
Thm_C6 ==
    cli.prompts # <<>> =>
        /\ cli.count > 1000 <=> cli.prompts[1] = "ack"
        /\ cli.count <= 1000 <=> cli.prompts = <<"marker">>

\* the acknowledgment prompt was shown for a count of 1001
Wit_C6 == cli.count = 1001 /\ cli.prompts # <<>> /\ cli.prompts[1] = "ack"

----------------------------------------------------------------------------
(* The sizes of the requests *)

\* C8: whatever batch size was asked for, every list request asks for at most
\* 500 messages and every batchDelete request carries at most 500 ids
Thm_C8 ==
    \A by \in DOMAIN calls :
        \A i \in 1..Len(calls[by]) :
            /\ calls[by][i].op = "list" => calls[by][i].maxResults <= 500
            /\ calls[by][i].op = "batchDelete" => Len(calls[by][i].ids) <= 500

\* a call with a batch size above 500 has deleted a batch of 500
Wit_C8 ==
    /\ cli.batch_size > 500
    /\ \E i \in 1..Len(calls[CLI]) :
         /\ calls[CLI][i].op = "batchDelete"
         /\ calls[CLI][i].maxResults = 0
         /\ Len(calls[CLI][i].ids) = 500

----------------------------------------------------------------------------
(* The estimate *)

\* C10 (as claimed): when the listing of count_emails fails, the value it
\* returns is no valid match count
Cex_C10 == cli.count_failed => cli.count \notin Nat

----------------------------------------------------------------------------
(* The jobs of gmail_ui.py *)

\* thread w is in the loop of delete_emails_by_query
InLoop(w) == thr[w].pc \in {"list", "delete", "publish"}

\* the list requests of the loop of thread w (count_emails asks for one message)
LoopLists(w) == SelectSeq(Lists(w), LAMBDA c : c.maxResults # 1)

\* the job of thread w has ended
Ended(w) == thr[w].pc \in {"release", "except_release", "done"}

\* no thread but w has been created
Alone(w) == \A v \in Workers \ {w} : thr[v].pc = "idle"

\* C1 (as claimed): at most one job is in its deletion loop at any time
Cex_C1 == \A v, w \in Workers : (InLoop(v) /\ InLoop(w)) => v = w

\* the job of thread w stopped at a failed list or batchDelete request of its loop
StoppedByFailure(w) ==
    /\ thr[w].pc = "done"
    /\ calls[w] # <<>>
    /\ LET last == calls[w][Len(calls[w])]
       IN  ~last.ok /\ ~(last.op = "list" /\ last.maxResults = 1)

\* C4 (as claimed): after a job stopped at a failed request of its loop, the
\* progress read next has status error and a non-empty error detail
Cex_C4 ==
    \A w \in Workers :
        (StoppedByFailure(w) /\ Alone(w)) =>
            /\ deletion_progress.status = "error"
            /\ "error" \in DOMAIN deletion_progress
            /\ deletion_progress["error"] # ""

\* the first list request of the loop of thread w returned an empty page
FirstPageEmpty(w) ==
    /\ LoopLists(w) # <<>>
    /\ LoopLists(w)[1].ok
    /\ LoopLists(w)[1].ids = <<>>

\* C7: a job whose first list request returns an empty page sends no
\* batchDelete request and returns a count of 0 on the path that sets the status
\* complete; with no other job around, the progress then shows complete and 0
Thm_C7 ==
    \A w \in Workers :
        (FirstPageEmpty(w) /\ Ended(w)) =>
            /\ Deletes(w) = <<>>
            /\ Len(LoopLists(w)) = 1
            /\ thr[w].total_deleted = 0
            /\ thr[w].deleted = <<0>>
            /\ Alone(w) =>
                  /\ deletion_progress.status = "complete"
                  /\ deletion_progress.current = 0

\* a job on an empty mailbox has ended
Wit_C7 ==
    \E w \in Workers :
        /\ initial = 0
        /\ FirstPageEmpty(w)
        /\ thr[w].pc = "done"
        /\ deletion_progress.status = "complete"

\* C9 (as claimed): whenever the status is complete or error, a start request
\* is accepted (the flag that refuses it is not set)
Cex_C9 ==
    \A w \in Workers :
        (Alone(w) /\ deletion_progress.status \in {"complete", "error"}) =>
            ~deletion_in_progress

----------------------------------------------------------------------------
(* Failures before and during a job of gmail_ui.py *)

\* what get_gmail_service raises when it finds no credentials
NoCredentials == "credentials.json not found!"

\* C11 (as claimed): a start whose credential acquisition fails is not answered
\* as accepted: after the answer 'deleting' to the only start so far, the thread
\* it created does not meet a failure of get_gmail_service
Cex_C11 ==
    \A w \in Workers :
        (Alone(w) /\ thr[w].pc # "idle" /\ response.body = "deleting") =>
            thr[w].exc # NoCredentials

\* C12: an empty custom query is rejected before any request is sent to Gmail
\* and starts no job: the command-line program sends requests only for a
\* non-empty query, /api/count answers an empty query with 400 and sends
\* nothing, and no thread of /api/delete runs for an empty query
Thm_C12 ==
    /\ calls[CLI] # <<>> => cli.query # <<>>
    /\ cli.pc \in {"count", "confirm", "list", "delete", "returned"} => cli.query # <<>>
    /\ count_response.query = <<>> =>
          /\ count_response.code \in {0, 400}
          /\ calls[API] = <<>>
    /\ count_response.code = 400 => count_response.error = "No query"
    /\ \A w \in Workers :
          (thr[w].pc # "idle" \/ calls[w] # <<>>) => thr[w].query # <<>>

\* /api/count and /api/delete have both refused an empty query; no thread was
\* created and no request was sent
Wit_C12 ==
    /\ count_response.query = <<>>
    /\ count_response.code = 400
    /\ response = [code |-> 400, body |-> "No query"]
    /\ \A w \in Workers : thr[w].pc = "idle"
    /\ \A by \in DOMAIN calls : calls[by] = <<>>

\* the writes of thread w to deletion_progress['status']
StatusWrites(w) == SelectSeq(writes[w], LAMBDA x : x.key = "status")

\* a failure was raised in thread w: an exception reached do_deletion, or a
\* request of the loop of delete_emails_by_query failed
Failed(w) ==
    \/ thr[w].exc # ""
    \/ /\ calls[w] # <<>>
       /\ LET last == calls[w][Len(calls[w])]
          IN  ~last.ok /\ ~(last.op = "list" /\ last.maxResults = 1)

\* C13: a failure raised while a job runs is written to the progress as status
\* error by the job itself, after its last request; the job sends nothing more
\* and ends, and once it has ended alone the flag is released, so the next start
\* is served and accepted
Thm_C13 ==
    \A w \in Workers :
        Failed(w) =>
            /\ thr[w].pc \in {"http_error", "release", "except", "except_detail",
                              "except_release", "done"}
            /\ thr[w].pc \notin {"http_error", "except"} =>
                  LET last == StatusWrites(w)[Len(StatusWrites(w))]
                  IN  /\ StatusWrites(w) # <<>>
                      /\ last.value = "error"
                      /\ last.at = Len(calls[w])
            /\ (Alone(w) /\ thr[w].pc \notin {"http_error", "except"}) =>
                  progress.status = "error"
            /\ (Alone(w) /\ thr[w].pc = "done") => ~ui_refused

\* a job that failed at its second batchDelete request has ended with status
\* error and the flag released
Wit_C13 ==
    \E w \in Workers :
        /\ Alone(w)
        /\ thr[w].pc = "done"
        /\ Failed(w)
        /\ thr[w].exc = ""
        /\ Len(Deleted(w)) = 1
        /\ Len(Deletes(w)) = 2
        /\ progress.status = "error"
        /\ ~deletion_in_progress

----------------------------------------------------------------------------
(* The progress of a job of gmail_ui.py *)

\* the statuses Complete and Error
Terminal == {"complete", "error"}

\* the job of thread w is the one started last
Latest(w) == thr[w].pc # "idle" /\ \A v \in Workers : v > w => thr[v].pc = "idle"

\* C14 (as claimed): after a job has ended, with no job started since, the
\* progress read next holds the terminal status and the final count of deleted
\* messages of that job
Cex_C14 ==
    \A w \in Workers :
        (Latest(w) /\ thr[w].pc = "done") =>
            /\ progress.status \in Terminal
            /\ progress.current = thr[w].total_deleted

\* C15 (as claimed): a job writes nothing to the progress after it has written
\* the status complete or error
Cex_C15 ==
    \A w \in Workers :
        Alone(w) =>
            \A i \in 1..Len(writes[w]) :
                (writes[w][i].key = "status" /\ writes[w][i].value \in Terminal) =>
                    i = Len(writes[w])

\* the place in calls[w] of the first list request of the loop of thread w
FirstLoopList(w) ==
    CHOOSE i \in 1..Len(calls[w]) :
        /\ calls[w][i].op = "list" /\ calls[w][i].maxResults # 1
        /\ \A k \in 1..(i - 1) : ~(calls[w][k].op = "list" /\ calls[w][k].maxResults # 1)

\* C16: a job sets current to 0 and then the status to deleting before the
\* first list request of its loop, which it sends with total_deleted = 0 and no
\* page token; with no other job started, the progress shows both at that time
Thm_C16 ==
    \A w \in Workers :
        /\ (thr[w].pc = "list" /\ LoopLists(w) = <<>>) =>
              /\ thr[w].total_deleted = 0
              /\ thr[w].page_token = None
              /\ Alone(w) => (progress.status = "deleting" /\ progress.current = 0)
        /\ LoopLists(w) # <<>> =>
              /\ LoopLists(w)[1].pageToken = None
              /\ \E i, j \in 1..Len(writes[w]) :
                    /\ i < j
                    /\ writes[w][i].key = "current" /\ writes[w][i].value = 0
                    /\ writes[w][j].key = "status" /\ writes[w][j].value = "deleting"
                    /\ writes[w][j].at < FirstLoopList(w)
                    /\ \A k \in 1..(j - 1) : writes[w][k].key # "status"

\* a second job has sent the first list request of its loop after a first job
\* had deleted messages and ended: the progress was set back to deleting and 0
Wit_C16 ==
    /\ thr[1].pc = "done"
    /\ thr[1].total_deleted > 0
    /\ Len(LoopLists(1)) = 1
    /\ Len(LoopLists(2)) = 1
    /\ thr[2].pc \in {"delete", "complete"}
    /\ progress.status = "deleting"
    /\ progress.current = 0

----------------------------------------------------------------------------
(* The jobs of both programs, one after another *)

\* the callers that run a deletion loop
Jobs == {CLI} \cup Workers

\* the requests of the loop of delete_emails_by_query of caller by (count_emails
\* asks for one message)
LoopCalls(by) == SelectSeq(calls[by], LAMBDA c : ~(c.op = "list" /\ c.maxResults = 1))

\* the job of caller by has ended
JobEnded(by) ==
    IF by = CLI THEN cli.pc \in {"returned", "raised", "exit"} ELSE thr[by].pc = "done"

\* a failure was raised in the job of caller by
JobFailed(by) ==
    IF by = CLI THEN cli.failed \/ cli.pc = "raised" ELSE Failed(by)

\* the job of caller by has run its loop to the end and met no failure
JobClean(by) ==
    /\ JobEnded(by)
    /\ LoopCalls(by) # <<>>
    /\ ~SomeFailed(by)
    /\ ~JobFailed(by)

\* the job of caller by has not been started
NotStarted(by) == calls[by] = <<>> /\ (by \in Workers => thr[by].pc = "idle")

\* the ids caller by has sent in batchDelete requests
SubmittedIds(by) == UNION {IdsOf(Deletes(by)[i]) : i \in 1..Len(Deletes(by))}

\* the ids of the batchDelete requests of caller by that succeeded
DeletedIds(by) == UNION {IdsOf(Deleted(by)[i]) : i \in 1..Len(Deleted(by))}

\* the number of messages caller by has deleted
DeletedCount(by) == Sum(Sizes(Deleted(by)))

\* C17: a failed request of the loop of a job is the last request of that job:
\* the failed batch is not sent again and no later page is listed
Thm_C17 ==
    /\ \A by \in Jobs :
         \A i \in 1..Len(LoopCalls(by)) :
             ~LoopCalls(by)[i].ok => i = Len(LoopCalls(by))
    /\ cli.failed => cli.pc \in {"returned", "exit"}
    /\ \A w \in Workers :
         (LoopCalls(w) # <<>> /\ ~LoopCalls(w)[Len(LoopCalls(w))].ok) =>
             thr[w].pc \notin {"list", "delete", "publish", "complete"}

\* a job of each program has ended at a failed batchDelete request while the
\* mailbox still holds more than one page
Wit_C17 ==
    /\ Len(mailbox) > 500
    /\ cli.pc = "returned" /\ cli.failed
    /\ ~calls[CLI][Len(calls[CLI])].ok
    /\ \E w \in Workers :
         /\ thr[w].pc = "done"
         /\ calls[w] # <<>>
         /\ calls[w][Len(calls[w])].op = "batchDelete"
         /\ ~calls[w][Len(calls[w])].ok

\* C18 (as claimed): no id is sent in batchDelete requests of two jobs
Cex_C18 ==
    \A a, b \in Jobs :
        (a < b /\ Deletes(a) # <<>> /\ Deletes(b) # <<>>) =>
            SubmittedIds(a) \cap SubmittedIds(b) = {}

\* C18 (amended): with jobs that follow one another on a mailbox of N messages,
\* no id is deleted by two jobs and none deleted by a job is sent again by a
\* later one; the jobs together have deleted what is gone from the mailbox; a
\* job that ends without a failure leaves no message, so after a job that failed
\* with k messages deleted it has deleted N - k; and of two jobs that ended
\* without a failure one sent no batchDelete request
Thm_C18 ==
    /\ \A a, b \in Jobs :
         (a < b /\ Deleted(a) # <<>> /\ Deleted(b) # <<>>) =>
             DeletedIds(a) \cap DeletedIds(b) = {}
    /\ \A v, w \in Workers :
         (v < w /\ Deleted(v) # <<>> /\ Deletes(w) # <<>>) =>
             DeletedIds(v) \cap SubmittedIds(w) = {}
    /\ DeletedCount(CLI) + Sum([w \in Workers |-> DeletedCount(w)])
          = initial - Len(mailbox)
    /\ \A b \in Jobs : JobClean(b) => mailbox = <<>>
    /\ \A a, b \in Jobs :
         (/\ a # b
          /\ \A c \in Jobs \ {a, b} : NotStarted(c)
          /\ JobEnded(a) /\ JobFailed(a)
          /\ JobClean(b)) => DeletedCount(b) = initial - DeletedCount(a)
    /\ \A a, b \in Jobs :
         (a # b /\ JobClean(a) /\ JobClean(b)) =>
             (Deletes(a) = <<>> \/ Deletes(b) = <<>>)

\* of 501 messages a first job deleted 500 and failed at its second batchDelete
\* request; the job after it sent that batch again and deleted the one message
\* left
Wit_C18 ==
    /\ initial = 501
    /\ thr[1].pc = "done"
    /\ Failed(1)
    /\ DeletedCount(1) = 500
    /\ SubmittedIds(1) = 1..501
    /\ JobClean(2)
    /\ DeletedCount(2) = 1
    /\ mailbox = <<>>

\* C19 (as claimed): while the job started last has not written a terminal
\* status, the progress does not show complete or error
Cex_C19 ==
    \A w \in Workers :
        (/\ Latest(w)
         /\ \A i \in 1..Len(StatusWrites(w)) : StatusWrites(w)[i].value \notin Terminal)
        => progress.status \notin Terminal

\* C20: in the loop of every job a batchDelete request carries the ids of the
\* page of the list request just before it, which is not empty; a list request
\* after the first follows a batchDelete that succeeded and carries the
\* nextPageToken of the list response before that; the first carries none
Thm_C20 ==
    \A by \in Jobs :
        LET L == LoopCalls(by)
        IN  \A i \in 1..Len(L) :
                /\ L[i].op = "batchDelete" =>
                      /\ i > 1
                      /\ L[i - 1].op = "list" /\ L[i - 1].ok
                      /\ L[i].ids = L[i - 1].ids
                      /\ L[i].ids # <<>>
                /\ (L[i].op = "list" /\ i = 1) => L[i].pageToken = None
                /\ (L[i].op = "list" /\ i > 1) =>
                      /\ i > 2
                      /\ L[i - 1].op = "batchDelete" /\ L[i - 1].ok
                      /\ L[i - 2].op = "list"
                      /\ L[i].pageToken = L[i - 2].nextPageToken
                      /\ L[i].pageToken # None

\* a job of gmail_ui.py has deleted two pages, the second listed with the token
\* of the first, after the command-line loop had sent a batch
Wit_C20 ==
    /\ Deletes(CLI) # <<>>
    /\ \E w \in Workers :
         LET L == LoopCalls(w)
         IN  /\ Len(L) = 4
             /\ L[1].nextPageToken = 500
             /\ L[3].pageToken = 500
             /\ L[4].ok
             /\ L[4].ids = <<501>>

----------------------------------------------------------------------------
(* The count a job publishes *)

\* the writes of thread w to deletion_progress['current']
CurrentWrites(w) == SelectSeq(writes[w], LAMBDA x : x.key = "current")

\* the number of messages deleted by the first n requests of caller by
DeletedUpTo(by, n) ==
    Sum(Sizes(SelectSeq(SubSeq(calls[by], 1, n),
                        LAMBDA c : c.op = "batchDelete" /\ c.ok)))

\* C21: every value a job writes to current is the total length of the batches
\* its batchDelete requests have deleted so far: the values never decrease, a
\* failed batch adds nothing, and the write that follows a successful batch is
\* made before the next list request; with one job at a time the progress shows
\* that total from the reset of the job onwards, less the last batch only
\* between its batchDelete response and the write
Thm_C21 ==
    \A w \in Workers :
        LET cur == CurrentWrites(w)
        IN  /\ \A i \in 1..Len(cur) : cur[i].value = DeletedUpTo(w, cur[i].at)
            /\ \A i \in 1..(Len(cur) - 1) : cur[i].value <= cur[i + 1].value
            /\ \A k \in 1..Len(calls[w]) :
                  (/\ calls[w][k].op = "batchDelete" /\ calls[w][k].ok
                   /\ (k < Len(calls[w]) \/ thr[w].pc # "publish"))
                  => \E i \in 1..Len(cur) : cur[i].at = k
            /\ \A k \in 1..Len(calls[w]) :
                  (calls[w][k].op = "batchDelete" /\ ~calls[w][k].ok)
                  => \A i \in 1..Len(cur) : cur[i].at < k
            /\ (Latest(w) /\ cur # <<>>) =>
                  progress.current =
                      IF thr[w].pc = "publish"
                      THEN DeletedCount(w) - Len(calls[w][Len(calls[w])].ids)
                      ELSE DeletedCount(w)

\* a job has deleted a page of 500 messages and published 500; the batchDelete
\* request of its second page failed, and the progress still shows 500
Wit_C21 ==
    /\ Len(Deleted(1)) = 1
    /\ Len(Deletes(1)) = 2
    /\ ~calls[1][Len(calls[1])].ok
    /\ thr[1].pc = "done"
    /\ Len(CurrentWrites(1)) = 2
    /\ progress.current = 500

----------------------------------------------------------------------------
(* The end of a job *)

\* a step of the do_deletion thread w
ThreadStep(w) ==
    \/ UiBegin(w) \/ UiCount(w) \/ UiTotal(w) \/ UiCurrent(w) \/ UiDeleting(w)
    \/ UiList(w) \/ UiBatchDelete(w) \/ UiPublish(w) \/ UiComplete(w)
    \/ UiHttpError(w) \/ UiRelease(w)
    \/ UiExcept(w) \/ UiExceptDetail(w) \/ UiExceptRelease(w)

\* gmail_ui.py serving, every started thread being scheduled again and again
\* and every request of a thread being answered
SpecUiFair == InitUi /\ [][NextUi]_vars /\ \A w \in Workers : WF_vars(ThreadStep(w))

\* the jobs of gmail_ui.py, each started when no other job is running
NextJobs ==
    \/ NoJobRunning /\ UiDelete
    \/ ThreadSteps

\* gmail_ui.py serving one job after another, every started thread being
\* scheduled again and again and every request of a thread being answered
SpecJobsFair == InitUi /\ [][NextJobs]_vars /\ \A w \in Workers : WF_vars(ThreadStep(w))

\* thread w has written a terminal status
WroteTerminal(w) ==
    \E i \in 1..Len(writes[w]) :
        writes[w][i].key = "status" /\ writes[w][i].value \in Terminal

\* C22: the thread of every accepted start ends, having written the status
\* complete or error, and when it ends the flag is released and the progress
\* holds a terminal status
Thm_C22 ==
    \A w \in Workers :
        (thr[w].pc = "begin") ~>
            (/\ thr[w].pc = "done"
             /\ WroteTerminal(w)
             /\ progress.status \in Terminal
             /\ ~deletion_in_progress)

\* a first job ended because credentials.json was missing and a second because
\* the list request of count_emails failed: each wrote the status error and
\* released the flag
Wit_C22 ==
    /\ thr[1].pc = "done"
    /\ thr[1].exc = NoCredentials
    /\ thr[2].pc = "done"
    /\ calls[2] = <<FailedListCall(1, None)>>
    /\ thr[2].exc = "transport error"
    /\ WroteTerminal(1)
    /\ WroteTerminal(2)
    /\ progress.status = "error"
    /\ ~deletion_in_progress

----------------------------------------------------------------------------
(* The two loops on the same mailbox *)

\* the mailbox as it was before any request
Original == [i \in 1..initial |-> i]

\* the query matches the same messages again: the mailbox a later job meets is
\* the one the job of gmail_bulk_delete.py met
SameMailboxAgain ==
    /\ NoJobRunning
    /\ cli.pc \in {"returned", "raised"}
    /\ mailbox # Original
    /\ mailbox' = Original
    /\ UNCHANGED <<initial, calls, cli, ui>>

\* delete_emails_by_query of gmail_bulk_delete.py is called with the default
\* batch size; afterwards gmail_ui.py serves jobs one after another, each on
\* the mailbox the first call met
NextTwice ==
    \/ UiNotStarted /\ (CliList \/ CliBatchDelete)
    \/ SameMailboxAgain
    \/ (/\ NoJobRunning
        /\ cli.pc \in {"returned", "raised"}
        /\ mailbox = Original
        /\ UiDelete)
    \/ ThreadSteps

SpecTwice == InitSeq /\ [][NextTwice]_vars

\* what a request asks for
Request(c) ==
    [op |-> c.op, maxResults |-> c.maxResults, pageToken |-> c.pageToken,
     ids |-> IF c.op = "batchDelete" THEN c.ids ELSE <<>>]

\* what Gmail answered to a request
Answer(c) ==
    [ok |-> c.ok, ids |-> IF c.op = "list" THEN c.ids ELSE <<>>,
     nextPageToken |-> c.nextPageToken]

\* the loop of thread w is over
LoopEnded(w) ==
    /\ writes[w] # <<>>
    /\ thr[w].pc \notin {"begin", "count", "total", "current", "deleting",
                         "list", "delete", "publish"}
    /\ LoopCalls(w) # <<>>

\* C23: given the same answers, the loop of gmail_ui.py sends the requests the
\* loop of gmail_bulk_delete.py sends with batch size 500, one for one and with
\* the same arguments, and stops where it stops; each loop has counted the
\* messages its successful batchDelete requests deleted, at every step and
\* when a request has failed
Thm_C23 ==
    /\ cli.total_deleted = DeletedCount(CLI)
    /\ \A w \in Workers :
         LET A == LoopCalls(CLI)
             B == LoopCalls(w)
             n == Min(Len(A), Len(B))
             SameAnswers(k) == \A i \in 1..k : Answer(A[i]) = Answer(B[i])
         IN  /\ (InLoop(w) \/ LoopEnded(w)) => thr[w].total_deleted = DeletedCount(w)
             /\ \A k \in 1..n : SameAnswers(k - 1) => Request(A[k]) = Request(B[k])
             /\ SameAnswers(n) =>
                   /\ Len(B) <= Len(A)
                   /\ LoopEnded(w) =>
                         /\ Len(B) = Len(A)
                         /\ thr[w].total_deleted = cli.total_deleted
                         /\ CurrentWrites(w)[Len(CurrentWrites(w))].value
                                = cli.total_deleted

\* both loops deleted a first page of 500 messages and met a failure of the
\* batchDelete request of the second page: four requests each, 500 counted
Wit_C23 ==
    /\ Len(LoopCalls(CLI)) = 4
    /\ ~LoopCalls(CLI)[4].ok
    /\ LoopCalls(CLI)[4].op = "batchDelete"
    /\ LoopEnded(1)
    /\ LoopCalls(1) = LoopCalls(CLI)
    /\ cli.total_deleted = 500
    /\ thr[1].total_deleted = 500

----------------------------------------------------------------------------
(* The routes that start nothing *)

\* C24: a POST /api/delete that is answered 400 leaves the flag, the progress,
\* the threads, the requests sent and the mailbox as they were, and a thread
\* is created only by a POST that found the flag clear and a query
Thm_C24 ==
    [][/\ (response' # response /\ response'.code = 400) =>
              /\ deletion_in_progress' = deletion_in_progress
              /\ deletion_progress' = deletion_progress
              /\ thr' = thr
              /\ writes' = writes
              /\ calls' = calls
              /\ mailbox' = mailbox
       /\ \A w \in Workers :
              (thr[w].pc = "idle" /\ thr'[w].pc # "idle") =>
                  /\ ~deletion_in_progress
                  /\ ~ui_no_query(thr'[w].query)
                  /\ response'.code = 200]_vars

\* a POST /api/delete was refused while a job was deleting: no second thread,
\* and the progress is the job's
Wit_C24 ==
    /\ response = [code |-> 400, body |-> "Deletion in progress"]
    /\ deletion_in_progress
    /\ thr[1].pc = "delete"
    /\ thr[2].pc = "idle"
    /\ progress.status = "deleting"

\* a request asks for the estimate alone: one message, from the first page
IsCountCall(c) == c.op = "list" /\ c.maxResults = 1 /\ c.pageToken = None

\* C25: a call of count_emails, by the route count() or by main(), sends one
\* list request for one message and nothing else, whether the request fails or
\* not and whether a job is running or not; the step leaves the flag, the
\* progress, the threads and the mailbox as they were (a POST /api/count
\* without a query or without credentials does not reach count_emails and
\* sends nothing)
Thm_C25 ==
    [][/\ (count_response' # count_response \/ calls'[API] # calls[API]) =>
              /\ deletion_in_progress' = deletion_in_progress
              /\ deletion_progress' = deletion_progress
              /\ thr' = thr
              /\ writes' = writes
              /\ mailbox' = mailbox
              /\ \A by \in Jobs : calls'[by] = calls[by]
              /\ IF count_response'.code = 400 \/ count_response'.error = NoCredentials
                 THEN calls'[API] = <<>>
                 ELSE Len(calls'[API]) = 1 /\ IsCountCall(calls'[API][1])
       /\ (cli.pc = "count" /\ cli'.pc # "count") =>
              /\ Len(calls'[CLI]) = Len(calls[CLI]) + 1
              /\ SubSeq(calls'[CLI], 1, Len(calls[CLI])) = calls[CLI]
              /\ IsCountCall(calls'[CLI][Len(calls'[CLI])])
              /\ mailbox' = mailbox
              /\ UNCHANGED ui]_vars

\* a POST /api/count was answered with an estimate while a job was between the
\* list and the batchDelete request of its second page: it listed the one
\* message left, and the job goes on
Wit_C25 ==
    /\ thr[1].pc = "delete"
    /\ thr[1].message_ids = <<501>>
    /\ mailbox = <<501>>
    /\ calls[API] = <<CountCall(mailbox)>>
    /\ count_response.code = 200
    /\ count_response.count # <<>>
    /\ deletion_in_progress
    /\ progress.status = "deleting"
    /\ progress.current = 500

----------------------------------------------------------------------------
(* The flag and the status *)

\* C26 (as claimed): while the progress shows deleting, or a job is in its
\* loop, the flag is set
Cex_C26 ==
    (progress.status = "deleting" \/ \E w \in Workers : InLoop(w))
        => deletion_in_progress

\* C27 (as claimed): the progress holds an error detail only while its status
\* is error
Cex_C27 == "error" \in DOMAIN progress => progress.status = "error"

====
